---- MODULE Spec2Model ----
(***************************************************************************)
(* State-machine model of monitor.py, the GSMI dashboard script.           *)
(*                                                                         *)
(* One run of the script is a walk of pc from "key" to "done" (or          *)
(* "stopped" after st.stop()).  Between runs the clock may advance; the    *)
(* st.cache_data entry of fetch_data survives from run to run.             *)
(*                                                                         *)
(* Numbers are fixed point: real yield in 1/100 percent, currency index    *)
(* in 1/100, survey cash and short ratio in 1/10 percent, credit spread in *)
(* bps, USD/HKD in 1/1000, copper/gold ratio in 1/RatioScale, normalised   *)
(* index performance in 1/10 point.  A time series is run-length encoded:  *)
(* a sequence of segments [v, n] meaning n consecutive rows of value v.    *)
(***************************************************************************)
EXTENDS Integers, Sequences, FiniteSets, TLC

\* ------------------------------------------------------------------------
\* Program constants
\* ------------------------------------------------------------------------
TTL == 3600                  \* @st.cache_data(ttl=3600)
Window == 200                \* cg_series.rolling(200)
PrevOffset == 5              \* .iloc[-5]
TailRows == 20               \* proxy_clean.tail(20)
NaN == -1000000              \* float('nan') in a pandas object
RatioScale == 1000           \* fixed-point scale of copper/gold
PerfScale == 1000            \* (plot_df / base_price) * 100, in tenths

\* ------------------------------------------------------------------------
\* Bounds of the model
\* ------------------------------------------------------------------------
MaxTicks == 3                \* clock advances between runs

TickStep == TTL \div 2

\* ------------------------------------------------------------------------
\* pandas Series, run-length encoded
\* ------------------------------------------------------------------------
Seg(v, n) == [v |-> v, n |-> n]

RECURSIVE SerLenFrom(_, _)
SerLenFrom(s, i) == IF i > Len(s) THEN 0 ELSE s[i].n + SerLenFrom(s, i + 1)

SerLen(s) == SerLenFrom(s, 1)

RECURSIVE FFillFrom(_, _, _)
FFillFrom(s, i, last) ==
    IF i > Len(s) THEN << >>
    ELSE LET v == IF s[i].v = NaN THEN last ELSE s[i].v
         IN  << Seg(v, s[i].n) >> \o FFillFrom(s, i + 1, v)

FFill(s) == FFillFrom(s, 1, NaN)

Reverse(s) == [i \in 1..Len(s) |-> s[Len(s) + 1 - i]]

BFill(s) == Reverse(FFill(Reverse(s)))

DropNa(s) == SelectSeq(s, LAMBDA g : g.v # NaN)

RECURSIVE ILocFrom(_, _, _)
ILocFrom(s, i, k) ==
    IF i = 0 THEN [ok |-> FALSE, v |-> 0]
    ELSE IF s[i].n >= k THEN [ok |-> TRUE, v |-> s[i].v]
    ELSE ILocFrom(s, i - 1, k - s[i].n)

\* a "safe get" that defaults to 0.0 instead of raising IndexError
ILocDefault(s, k) ==
    LET r == ILocFrom(s, Len(s), k) IN [ok |-> TRUE, v |-> r.v]

\* s.iloc[-k]: ok = FALSE stands for IndexError
ILoc(s, k) == ILocFrom(s, Len(s), k)

RECURSIVE SumLastFrom(_, _, _)
SumLastFrom(s, i, k) ==
    IF i = 0 \/ k = 0 THEN 0
    ELSE IF s[i].n >= k THEN k * s[i].v
    ELSE s[i].n * s[i].v + SumLastFrom(s, i - 1, k - s[i].n)

\* s.rolling(Window).mean().dropna(): empty iff fewer than Window rows
RollingEmpty(s) == SerLen(s) < Window

\* last value of s.rolling(Window).mean().dropna()
RollingLast(s) == SumLastFrom(s, Len(s), Window) \div Window

\* ------------------------------------------------------------------------
\* pandas DataFrame: a set of column names and run-length encoded rows
\* ------------------------------------------------------------------------
Frame(cols, segs) == [cols |-> cols, segs |-> segs]

RowSeg(row, n) == [row |-> row, n |-> n]

\* df[c] for a column that exists
Col(df, c) == [i \in 1..Len(df.segs) |-> Seg(df.segs[i].row[c], df.segs[i].n)]

FrameFFill(df) ==
    Frame(df.cols, [i \in 1..Len(df.segs) |->
        RowSeg([c \in df.cols |-> FFill(Col(df, c))[i].v], df.segs[i].n)])

FrameBFill(df) ==
    Frame(df.cols, [i \in 1..Len(df.segs) |->
        RowSeg([c \in df.cols |-> BFill(Col(df, c))[i].v], df.segs[i].n)])

FrameDropNa(df) ==
    Frame(df.cols, SelectSeq(df.segs, LAMBDA g : \A c \in df.cols : g.row[c] # NaN))

\* float division of two columns' values; NaN propagates
Div(a, b) == IF a = NaN \/ b = NaN THEN NaN ELSE (a * RatioScale) \div b

\* (price_df["HG=F"] / price_df["GC=F"]).dropna()
CgSeries(df) ==
    DropNa([i \in 1..Len(df.segs) |->
        Seg(Div(df.segs[i].row["HG=F"], df.segs[i].row["GC=F"]), df.segs[i].n)])

\* ------------------------------------------------------------------------
\* What the two providers can answer
\* ------------------------------------------------------------------------
Tickers == {"DX-Y.NYB", "HG=F", "GC=F", "HKD=X"}

PriceRow(dxy, hg, gc, hkd) ==
    [c \in Tickers |-> CASE c = "DX-Y.NYB" -> dxy [] c = "HG=F" -> hg
                         [] c = "GC=F" -> gc [] OTHER -> hkd]

\* fred.get_series('DFII10', ...): gaps, too little history, nothing
FredTipsRaw ==
    { << Seg(NaN, 1), Seg(80, 3), Seg(NaN, 2), Seg(150, 2) >>,
      << Seg(210, 3), Seg(NaN, 1) >>,
      << >> }

\* fred.get_series('BAMLH0A0HYM2', ...)
FredSpreadRaw ==
    { << Seg(420, 6) >>,
      << Seg(NaN, 3) >> }

\* yf.download of the four tickers: [multi, frame]; with multi the frame is
\* raw_df['Close'], otherwise raw_df itself (columns are price fields)
YahooRaw ==
    { [multi |-> TRUE, frame |-> Frame(Tickers,
          << RowSeg(PriceRow(9900, 4, 2, 7805), 300),
             RowSeg(PriceRow(9900, 6, 2, 7805), 100) >>)],
      [multi |-> TRUE, frame |-> Frame(Tickers,
          << RowSeg(PriceRow(10200, 6, 2, 7845), 300),
             RowSeg(PriceRow(10200, 4, 2, 7845), 100) >>)],
      [multi |-> TRUE, frame |-> Frame(Tickers,
          << RowSeg(PriceRow(9900, 4, 2, NaN), 1),
             RowSeg(PriceRow(9900, 4, 2, 7820), 196),
             RowSeg(PriceRow(NaN, 6, 2, 7820), 2) >>)],
      [multi |-> TRUE, frame |-> Frame(Tickers,
          << RowSeg(PriceRow(9900, NaN, 2, 7805), 250) >>)],
      [multi |-> FALSE, frame |-> Frame({"Close", "Open"},
          << RowSeg([c \in {"Close", "Open"} |-> 9900], 250) >>)] }

ProxyTickers == {"000300.SS", "^HSI"}

ProxyRow(as, hsi) == [c \in ProxyTickers |-> IF c = "^HSI" THEN hsi ELSE as]

\* closing levels of the Hong Kong index on the last day, base day = 1000
HsiLast == { 984, 985, 1000, 1001, 1015, 1016, 1020, 1021 }

\* yf.download(proxy_tickers, period="45d"): [empty, fields, close]
ProxyRaw ==
    { [empty |-> FALSE, fields |-> {"Close", "Volume"}, close |-> Frame(ProxyTickers,
          << RowSeg(ProxyRow(990, NaN), 1),
             RowSeg(ProxyRow(1000, 1000), 30),
             RowSeg(ProxyRow(NaN, h), 1) >>)] : h \in HsiLast }
    \cup
    { [empty |-> FALSE, fields |-> {"Close", "Volume"}, close |-> Frame(ProxyTickers,
          << RowSeg(ProxyRow(NaN, 1000), 30), RowSeg(ProxyRow(NaN, 1030), 1) >>)],
      [empty |-> FALSE, fields |-> {"Close", "Volume"}, close |-> Frame({"^HSI"},
          << RowSeg([c \in {"^HSI"} |-> 1000], 31) >>)],
      [empty |-> FALSE, fields |-> {"Volume"}, close |-> Frame({}, << >>)],
      [empty |-> TRUE, fields |-> {}, close |-> Frame({}, << >>)] }

\* what the sidebar and in-page widgets can hold
CashChoices == { 39, 45, 51 }
ShortChoices == { 165, 201 }
ImpactChoices == { "negative", "neutral", "major_positive" }

\* the expander's widgets: the select_slider exists only under the checkbox
ManualChoices ==
    { [manual_fix |-> FALSE, impact |-> "neutral"] }
    \cup { [manual_fix |-> TRUE, impact |-> i] : i \in ImpactChoices }

\* ------------------------------------------------------------------------
\* 5. GSMI score
\* ------------------------------------------------------------------------
\* the first band closed at 1.0
STipsInclusive(curr_tips) == IF curr_tips <= 100 THEN 20 ELSE (IF curr_tips <= 200 THEN 10 ELSE 0)

STips(curr_tips) == IF curr_tips < 100 THEN 20 ELSE (IF curr_tips <= 200 THEN 10 ELSE 0)

\* the middle band open at 105
SDxyExclusive(curr_dxy) == IF curr_dxy < 10000 THEN 20 ELSE (IF curr_dxy < 10500 THEN 10 ELSE 0)

SDxy(curr_dxy) == IF curr_dxy < 10000 THEN 20 ELSE (IF curr_dxy <= 10500 THEN 10 ELSE 0)

\* sentiment weighted 40 instead of 30
SCashHeavy(cash) == IF cash > 50 THEN 40 ELSE (IF cash >= 40 THEN 15 ELSE 0)

SCash(cash) == IF cash > 50 THEN 30 ELSE (IF cash >= 40 THEN 15 ELSE 0)

SSpread(curr_spread) == IF curr_spread < 350 THEN 20 ELSE (IF curr_spread <= 500 THEN 10 ELSE 0)

SCg(cg, ma) == IF cg > ma THEN 10 ELSE 0

\* empty moving average replaced by 0.0 instead of the ratio itself
Ma200CgZero(cg_series, cg) == IF ~RollingEmpty(cg_series) THEN RollingLast(cg_series) ELSE 0

\* ma200_cg = float(ma200_cg_ser.iloc[-1]) if not ma200_cg_ser.empty else curr_cg
Ma200Cg(cg_series, cg) == IF ~RollingEmpty(cg_series) THEN RollingLast(cg_series) ELSE cg

\* ------------------------------------------------------------------------
\* fetch_data body and the comparison chart's normalisation
\* ------------------------------------------------------------------------
FetchDataBody(tips_raw, spread_raw, raw_df) ==
    [tips      |-> DropNa(FFill(tips_raw)),
     price_df  |-> FrameDropNa(FrameFFill(raw_df.frame)),
     spread    |-> DropNa(FFill(spread_raw))]

Min(a, b) == IF a < b THEN a ELSE b

\* float(norm_data[c].iloc[-1]) of proxy_close.ffill().bfill().tail(20)
NormLast(close, c) ==
    LET col  == Col(FrameBFill(FrameFFill(close)), c)
        base == ILoc(col, Min(TailRows, SerLen(col))).v
        last == ILoc(col, 1).v
    IN  IF base = NaN \/ last = NaN THEN NaN ELSE (last * PerfScale) \div base

Sub(a, b) == IF a = NaN \/ b = NaN THEN NaN ELSE a - b

\* float comparisons: anything compared with NaN is False
Gt(a, b) == a # NaN /\ b # NaN /\ a > b

Lt(a, b) == a # NaN /\ b # NaN /\ a < b

ProxyGuard(p) == ~p.empty /\ "Close" \in p.fields

\* ------------------------------------------------------------------------
\* Decision matrix: the sequence of advisories it prints
\* ------------------------------------------------------------------------
\* the middle band tested by its own "if total >= 45" instead of "elif"
DecideFallThrough(total, gap, hkd, short) ==
    (IF total >= 70 THEN
        IF Gt(gap, 15) /\ hkd < 7810 THEN << "Aggressive" >>
        ELSE IF Lt(gap, -15) THEN << "Domestic Led" >>
        ELSE << "Neutral Buy" >>
     ELSE << >>)
    \o
    (IF 45 <= total THEN
        IF Gt(gap, 20) THEN << "Short Squeeze" >>
        ELSE IF short > 200 THEN << "Bottom Ambush" >>
        ELSE << "Wait and See" >>
     ELSE
        IF Gt(gap, 0) THEN << "Bull Trap" >>
        ELSE << "Defensive" >>)

Decide(total, gap, hkd, short) ==
    IF total >= 70 THEN
        IF Gt(gap, 15) /\ hkd < 7810 THEN << "Aggressive" >>
        ELSE IF Lt(gap, -15) THEN << "Domestic Led" >>
        ELSE << "Neutral Buy" >>
    ELSE IF 45 <= total /\ total < 70 THEN
        IF Gt(gap, 20) THEN << "Short Squeeze" >>
        ELSE IF short > 200 THEN << "Bottom Ambush" >>
        ELSE << "Wait and See" >>
    ELSE
        IF Gt(gap, 0) THEN << "Bull Trap" >>
        ELSE << "Defensive" >>

\* ------------------------------------------------------------------------
\* State
\* ------------------------------------------------------------------------
VARIABLES
    now, ticks,              \* wall clock in seconds, number of advances
    cache,                   \* the st.cache_data entry of fetch_data
    pc,                      \* position of the script
    fred_key,                \* a FRED key is configured
    fms_cash, hk_short_ratio, manual_fix, impact,   \* widget values
    hit,                     \* this run's fetch_data() was served from cache
    fetched,                 \* tips_ser, price_df, spread_ser
    curr_tips, curr_dxy, curr_spread, curr_hkd,
    curr_cg, ma200_cg, ma_empty,
    s_tips, s_dxy, s_cash, s_spread, s_cg, gsmi_total, scored,
    current_hkd, proxy_raw, momentum_gap,
    advisories,              \* advisories printed by the decision matrix
    messages,                \* other st.warning / st.error / st.success
    footer,                  \* the closing caption was rendered
    calls,                   \* provider calls made by this run, in order
    exc                      \* exception raised inside the try block

clockVars == << now, ticks >>
widgetVars == << fred_key, fms_cash, hk_short_ratio, manual_fix, impact >>
readVars == << curr_tips, curr_dxy, curr_spread, curr_hkd >>
cgVars == << curr_cg, ma200_cg, ma_empty >>
scoreVars == << s_tips, s_dxy, s_cash, s_spread, s_cg, gsmi_total, scored >>
execVars == << current_hkd, proxy_raw, momentum_gap, advisories >>
vars == << now, ticks, cache, pc, fred_key, fms_cash, hk_short_ratio,
           manual_fix, impact, hit, fetched, curr_tips, curr_dxy,
           curr_spread, curr_hkd, curr_cg, ma200_cg, ma_empty, s_tips,
           s_dxy, s_cash, s_spread, s_cg, gsmi_total, scored, current_hkd,
           proxy_raw, momentum_gap, advisories, messages, footer, calls, exc >>

NoData == [tips |-> << >>, price_df |-> Frame({}, << >>), spread |-> << >>]
NoCache == [valid |-> FALSE, at |-> 0, data |-> NoData]
NoProxy == [empty |-> TRUE, fields |-> {}, close |-> Frame({}, << >>)]
NoExc == [type |-> "none", at |-> "none"]

\* a fresh script run: no name of the script body is bound yet
RunLocalsCleared ==
    /\ hit = FALSE
    /\ fetched = NoData
    /\ curr_tips = 0 /\ curr_dxy = 0 /\ curr_spread = 0 /\ curr_hkd = 0
    /\ curr_cg = 0 /\ ma200_cg = 0 /\ ma_empty = FALSE
    /\ s_tips = 0 /\ s_dxy = 0 /\ s_cash = 0 /\ s_spread = 0 /\ s_cg = 0
    /\ gsmi_total = 0 /\ scored = FALSE
    /\ current_hkd = 0 /\ proxy_raw = NoProxy /\ momentum_gap = 0
    /\ advisories = << >>
    /\ messages = {}
    /\ footer = FALSE
    /\ calls = << >>
    /\ exc = NoExc

Init ==
    /\ now = 0 /\ ticks = 0
    /\ cache = NoCache
    /\ pc = "idle"
    /\ fred_key = FALSE
    /\ fms_cash = 45 /\ hk_short_ratio = 165
    /\ manual_fix = FALSE /\ impact = "neutral"
    /\ RunLocalsCleared

\* ------------------------------------------------------------------------
\* A user interaction (or the first page load) starts the script again
\* ------------------------------------------------------------------------
StartRun ==
    /\ pc \in {"idle", "done", "stopped"}
    /\ pc' = "key"
    /\ fred_key' \in BOOLEAN
    /\ fms_cash' \in CashChoices
    /\ hk_short_ratio' \in ShortChoices
    /\ \E m \in ManualChoices :
          manual_fix' = m.manual_fix /\ impact' = m.impact
    /\ hit' = FALSE
    /\ fetched' = NoData
    /\ curr_tips' = 0 /\ curr_dxy' = 0 /\ curr_spread' = 0 /\ curr_hkd' = 0
    /\ curr_cg' = 0 /\ ma200_cg' = 0 /\ ma_empty' = FALSE
    /\ s_tips' = 0 /\ s_dxy' = 0 /\ s_cash' = 0 /\ s_spread' = 0 /\ s_cg' = 0
    /\ gsmi_total' = 0 /\ scored' = FALSE
    /\ current_hkd' = 0 /\ proxy_raw' = NoProxy /\ momentum_gap' = 0
    /\ advisories' = << >>
    /\ messages' = {}
    /\ footer' = FALSE
    /\ calls' = << >>
    /\ exc' = NoExc
    /\ UNCHANGED << clockVars, cache >>

\* time passes between two runs
Tick ==
    /\ pc \in {"idle", "done", "stopped"}
    /\ ticks < MaxTicks
    /\ ticks' = ticks + 1
    /\ now' = now + TickStep
    /\ UNCHANGED << cache, pc, widgetVars, hit, fetched, readVars, cgVars,
                    scoreVars, execVars, messages, footer, calls, exc >>

\* lines 29-31: if not fred_key: st.warning(...); st.stop()
CheckKey ==
    /\ pc = "key"
    /\ IF fred_key
       THEN /\ pc' = "fetch"
            /\ UNCHANGED messages
       ELSE /\ pc' = "stopped"
            /\ messages' = messages \cup {"warning_key"}
    /\ UNCHANGED << clockVars, cache, widgetVars, hit, fetched, readVars,
                    cgVars, scoreVars, execVars, footer, calls, exc >>

\* the cached entry may be served: it exists and is younger than the ttl
CacheFresh == cache.valid /\ now - cache.at < TTL

\* line 73, entry served by st.cache_data: the body does not run
FetchHit ==
    /\ pc = "fetch"
    /\ CacheFresh
    /\ hit' = TRUE
    /\ fetched' = cache.data
    /\ pc' = "extract"
    /\ UNCHANGED << clockVars, cache, widgetVars, readVars, cgVars,
                    scoreVars, execVars, messages, footer, calls, exc >>

FetchCalls == << "fred:DFII10", "fred:BAMLH0A0HYM2", "yf:download" >>

\* line 73, no usable entry: the body runs, its result is stored
FetchMiss ==
    /\ pc = "fetch"
    /\ ~CacheFresh
    /\ \E tips_raw \in FredTipsRaw, spread_raw \in FredSpreadRaw, raw_df \in YahooRaw :
          LET d == FetchDataBody(tips_raw, spread_raw, raw_df)
          IN  /\ fetched' = d
              /\ cache' = [valid |-> TRUE, at |-> now, data |-> d]
    /\ calls' = calls \o FetchCalls
    /\ pc' = "extract"
    /\ UNCHANGED << clockVars, widgetVars, hit, readVars, cgVars, scoreVars,
                    execVars, messages, footer, exc >>

\* line 73, the k-th provider call of the body raises: fetch_data has no
\* handler, the exception leaves it and nothing is stored
FetchRaise ==
    /\ pc = "fetch"
    /\ ~CacheFresh
    /\ \E k \in 1..Len(FetchCalls) :
          calls' = calls \o SubSeq(FetchCalls, 1, k)
    /\ cache' = NoCache
    /\ exc' = [type |-> "NetworkError", at |-> "fetch_data"]
    /\ pc' = "except"
    /\ UNCHANGED << clockVars, widgetVars, hit, fetched, readVars, cgVars,
                    scoreVars, execVars, messages, footer >>

\* df[c].iloc[-k]: KeyError when the column is absent
ColILoc(df, c, k) ==
    IF c \in df.cols THEN ILoc(Col(df, c), k) ELSE [ok |-> FALSE, v |-> 0]

\* the exception lines 76-82 raise, in statement order
ExtractError(d) ==
    IF ~ILoc(d.tips, 1).ok \/ ~ILoc(d.tips, PrevOffset).ok THEN "IndexError"
    ELSE IF "DX-Y.NYB" \notin d.price_df.cols THEN "KeyError"
    ELSE IF ~ColILoc(d.price_df, "DX-Y.NYB", 1).ok
            \/ ~ColILoc(d.price_df, "DX-Y.NYB", PrevOffset).ok THEN "IndexError"
    ELSE IF ~ILoc(d.spread, 1).ok \/ ~ILoc(d.spread, PrevOffset).ok THEN "IndexError"
    ELSE IF "HKD=X" \notin d.price_df.cols THEN "KeyError"
    ELSE IF ~ColILoc(d.price_df, "HKD=X", 1).ok THEN "IndexError"
    ELSE "none"

\* lines 76-82
Extract ==
    /\ pc = "extract"
    /\ LET e == ExtractError(fetched)
       IN  IF e # "none"
           THEN /\ exc' = [type |-> e, at |-> "extract"]
                /\ pc' = "except"
                /\ UNCHANGED readVars
           ELSE /\ curr_tips' = ILoc(fetched.tips, 1).v
                /\ curr_dxy' = ColILoc(fetched.price_df, "DX-Y.NYB", 1).v
                /\ curr_spread' = ILoc(fetched.spread, 1).v
                /\ curr_hkd' = ColILoc(fetched.price_df, "HKD=X", 1).v
                /\ pc' = "momentum"
                /\ UNCHANGED exc
    /\ UNCHANGED << clockVars, cache, widgetVars, hit, fetched, cgVars,
                    scoreVars, execVars, messages, footer, calls >>

\* lines 85-88
Momentum ==
    /\ pc = "momentum"
    /\ IF ~({"HG=F", "GC=F"} \subseteq fetched.price_df.cols)
       THEN /\ exc' = [type |-> "KeyError", at |-> "momentum"]
            /\ pc' = "except"
            /\ UNCHANGED cgVars
       ELSE LET cg_series == CgSeries(fetched.price_df)
                cg == ILoc(cg_series, 1)
            IN  IF ~cg.ok
                THEN /\ exc' = [type |-> "IndexError", at |-> "momentum"]
                     /\ pc' = "except"
                     /\ UNCHANGED cgVars
                ELSE /\ curr_cg' = cg.v
                     /\ ma_empty' = RollingEmpty(cg_series)
                     /\ ma200_cg' = Ma200Cg(cg_series, cg.v)
                     /\ pc' = "score"
                     /\ UNCHANGED exc
    /\ UNCHANGED << clockVars, cache, widgetVars, hit, fetched, readVars,
                    scoreVars, execVars, messages, footer, calls >>

\* lines 91-96
Score ==
    /\ pc = "score"
    /\ s_tips' = STips(curr_tips)
    /\ s_dxy' = SDxy(curr_dxy)
    /\ s_cash' = SCash(fms_cash)
    /\ s_spread' = SSpread(curr_spread)
    /\ s_cg' = SCg(curr_cg, ma200_cg)
    /\ gsmi_total' = STips(curr_tips) + SDxy(curr_dxy) + SCash(fms_cash)
                       + SSpread(curr_spread) + SCg(curr_cg, ma200_cg)
    /\ scored' = TRUE
    /\ pc' = "tabs"
    /\ UNCHANGED << clockVars, cache, widgetVars, hit, fetched, readVars,
                    cgVars, execVars, messages, footer, calls, exc >>

\* lines 101-193: gauge, radar, tabs; line 177 reads the exchange rate again
Tabs ==
    /\ pc = "tabs"
    /\ current_hkd' = ColILoc(fetched.price_df, "HKD=X", 1).v
    /\ pc' = "proxy"
    /\ UNCHANGED << clockVars, cache, widgetVars, hit, fetched, readVars,
                    cgVars, scoreVars, proxy_raw, momentum_gap, advisories,
                    messages, footer, calls, exc >>

\* lines 199-236 and 278-279: the download answers; chart or error message
ProxyDownload ==
    /\ pc = "proxy"
    /\ calls' = calls \o << "yf:proxy" >>
    /\ \E p \in ProxyRaw :
          /\ proxy_raw' = p
          /\ IF ProxyGuard(p)
             THEN /\ pc' = "decide"
                  /\ UNCHANGED messages
             ELSE /\ pc' = "footer"
                  /\ messages' = messages \cup {"error_proxy"}
    /\ UNCHANGED << clockVars, cache, widgetVars, hit, fetched, readVars,
                    cgVars, scoreVars, current_hkd, momentum_gap, advisories,
                    footer, exc >>

\* line 200: the download raises
ProxyRaise ==
    /\ pc = "proxy"
    /\ calls' = calls \o << "yf:proxy" >>
    /\ exc' = [type |-> "NetworkError", at |-> "proxy"]
    /\ pc' = "except"
    /\ UNCHANGED << clockVars, cache, widgetVars, hit, fetched, readVars,
                    cgVars, scoreVars, execVars, messages, footer >>

\* lines 243-268
DecisionMatrix ==
    /\ pc = "decide"
    /\ IF ~(ProxyTickers \subseteq proxy_raw.close.cols)
       THEN /\ exc' = [type |-> "KeyError", at |-> "decide"]
            /\ pc' = "except"
            /\ UNCHANGED << momentum_gap, advisories >>
       ELSE LET as_perf == NormLast(proxy_raw.close, "000300.SS")
                hsi_perf == NormLast(proxy_raw.close, "^HSI")
                gap == Sub(hsi_perf, as_perf)
            IN  /\ momentum_gap' = gap
                /\ advisories' = advisories \o
                       Decide(gsmi_total, gap, current_hkd, hk_short_ratio)
                /\ pc' = "manual"
                /\ UNCHANGED exc
    /\ UNCHANGED << clockVars, cache, widgetVars, hit, fetched, readVars,
                    cgVars, scoreVars, current_hkd, proxy_raw, messages,
                    footer, calls >>

\* lines 271-277
ManualFix ==
    /\ pc = "manual"
    /\ messages' = IF manual_fix /\ impact = "major_positive"
                   THEN messages \cup {"success_raised_one_level"}
                   ELSE messages
    /\ pc' = "footer"
    /\ UNCHANGED << clockVars, cache, widgetVars, hit, fetched, readVars,
                    cgVars, scoreVars, execVars, footer, calls, exc >>

\* a handler that swallows the exception without a message
ExceptSilent ==
    /\ pc = "except"
    /\ pc' = "footer"
    /\ UNCHANGED << clockVars, cache, widgetVars, hit, fetched, readVars,
                    cgVars, scoreVars, execVars, messages, footer, calls, exc >>

\* lines 281-282
Except ==
    /\ pc = "except"
    /\ messages' = messages \cup {"error_exception"}
    /\ pc' = "footer"
    /\ UNCHANGED << clockVars, cache, widgetVars, hit, fetched, readVars,
                    cgVars, scoreVars, execVars, footer, calls, exc >>

\* lines 284-285
Footer ==
    /\ pc = "footer"
    /\ footer' = TRUE
    /\ pc' = "done"
    /\ UNCHANGED << clockVars, cache, widgetVars, hit, fetched, readVars,
                    cgVars, scoreVars, execVars, messages, calls, exc >>

Next ==
    \/ StartRun \/ Tick \/ CheckKey
    \/ FetchHit \/ FetchMiss \/ FetchRaise
    \/ Extract \/ Momentum \/ Score \/ Tabs
    \/ ProxyDownload \/ ProxyRaise \/ DecisionMatrix \/ ManualFix
    \/ Except \/ Footer

Spec == Init /\ [][Next]_vars

\* ------------------------------------------------------------------------
\* The score engine alone: a run that starts right after fetch_data()
\* returned, over readings on both sides of every threshold
\* ------------------------------------------------------------------------
TipsReadings == { 80, 100, 200, 210 }
DxyReadings == { 9900, 10000, 10500, 10600 }
SpreadReadings == { 349, 350, 500, 501 }
CashReadings == { 30, 39, 40, 50, 51, 65 }

\* copper price histories (gold stays at 2): ratio above, at and below its
\* moving average, and too short for a moving average
CopperHistories ==
    { << Seg(4, 300), Seg(6, 100) >>,
      << Seg(6, 400) >>,
      << Seg(6, 300), Seg(4, 100) >>,
      << Seg(4, 3), Seg(6, 2) >> }

ScoreFrame(dxy, copper) ==
    [multi |-> TRUE, frame |-> Frame(Tickers,
        [i \in 1..Len(copper) |->
            RowSeg(PriceRow(dxy, copper[i].v, 2, 7805), copper[i].n)])]

ScoreData ==
    { FetchDataBody(<< Seg(t, PrevOffset) >>, << Seg(sp, PrevOffset) >>,
                    ScoreFrame(dxy, copper)) :
        t \in TipsReadings, sp \in SpreadReadings, dxy \in DxyReadings,
        copper \in CopperHistories }

InitScore ==
    /\ now = 0 /\ ticks = 0
    /\ pc = "extract"
    /\ fred_key = TRUE
    /\ fms_cash \in CashReadings
    /\ hk_short_ratio = 165
    /\ manual_fix = FALSE /\ impact = "neutral"
    /\ fetched \in ScoreData
    /\ cache = [valid |-> TRUE, at |-> 0, data |-> fetched]
    /\ hit = FALSE
    /\ calls = FetchCalls
    /\ curr_tips = 0 /\ curr_dxy = 0 /\ curr_spread = 0 /\ curr_hkd = 0
    /\ curr_cg = 0 /\ ma200_cg = 0 /\ ma_empty = FALSE
    /\ s_tips = 0 /\ s_dxy = 0 /\ s_cash = 0 /\ s_spread = 0 /\ s_cg = 0
    /\ gsmi_total = 0 /\ scored = FALSE
    /\ current_hkd = 0 /\ proxy_raw = NoProxy /\ momentum_gap = 0
    /\ advisories = << >>
    /\ messages = {}
    /\ footer = FALSE
    /\ exc = NoExc

NextScore == Extract \/ Momentum \/ Score

SpecScore == InitScore /\ [][NextScore]_vars

\* ------------------------------------------------------------------------
\* Properties
\* ------------------------------------------------------------------------

\* C1: whenever a composite score has been produced it is an integer
\* between 0 and 100.
ScoreInRange == scored => gsmi_total \in 0..100

ScoreInRangeWitness == scored /\ gsmi_total = 100 /\ fms_cash = 65

\* the rule table of the score engine, band by band
RuleTips(x) == CASE x < 100 -> 20 [] x >= 100 /\ x <= 200 -> 10 [] x > 200 -> 0

RuleDxy(x) == CASE x < 10000 -> 20 [] x >= 10000 /\ x <= 10500 -> 10 [] x > 10500 -> 0

RuleCash(x) == CASE x > 50 -> 30 [] x >= 40 /\ x <= 50 -> 15 [] x < 40 -> 0

RuleSpread(x) == CASE x < 350 -> 20 [] x >= 350 /\ x <= 500 -> 10 [] x > 500 -> 0

RuleMomentum(above) == IF above THEN 10 ELSE 0

\* C2: the five point values equal the rule table and the composite is
\* their sum.
ScoreMatchesRuleTable ==
    scored =>
        /\ s_tips = RuleTips(curr_tips)
        /\ s_dxy = RuleDxy(curr_dxy)
        /\ s_cash = RuleCash(fms_cash)
        /\ s_spread = RuleSpread(curr_spread)
        /\ s_cg = RuleMomentum(curr_cg > ma200_cg)
        /\ gsmi_total = s_tips + s_dxy + s_cash + s_spread + s_cg

ScoreMatchesRuleTableWitness ==
    /\ scored
    /\ curr_tips = 210 /\ curr_dxy = 9900 /\ fms_cash = 40
    /\ curr_spread = 500 /\ curr_cg > ma200_cg
    /\ gsmi_total = 55

\* C3: a reading exactly on a threshold scores the middle value of its row.
BoundariesScoreMiddle ==
    scored =>
        /\ curr_tips \in {100, 200} => s_tips = 10
        /\ curr_dxy \in {10000, 10500} => s_dxy = 10
        /\ fms_cash \in {50, 40} => s_cash = 15
        /\ curr_spread \in {350, 500} => s_spread = 10

BoundariesScoreMiddleWitness ==
    /\ scored
    /\ curr_tips = 100 /\ curr_dxy = 10500 /\ fms_cash = 50 /\ curr_spread = 350
    /\ s_tips = 10 /\ s_dxy = 10 /\ s_cash = 15 /\ s_spread = 10

\* the run has left the extraction of the readings behind
PastExtraction ==
    pc \in {"momentum", "score", "tabs", "proxy", "decide", "manual",
            "except", "footer", "done"}

InputMissing(d) ==
    \/ d.tips = << >>
    \/ d.spread = << >>
    \/ ~(Tickers \subseteq d.price_df.cols)
    \/ d.price_df.segs = << >>
    \/ CgSeries(d.price_df) = << >>

\* C5: when a delivered series is missing or empty no score is produced, no
\* advisory is printed, the run is in its exception path and ends with the
\* error message on the page.
MissingInputHaltsScoring ==
    (PastExtraction /\ InputMissing(fetched)) =>
        /\ ~scored
        /\ advisories = << >>
        /\ exc # NoExc
        /\ pc \in {"except", "footer", "done"}
        /\ pc \in {"footer", "done"} => "error_exception" \in messages

MissingInputHaltsScoringWitness ==
    /\ pc = "done"
    /\ calls = FetchCalls
    /\ fetched.tips # << >> /\ fetched.spread = << >>
    /\ exc = [type |-> "IndexError", at |-> "extract"]
    /\ "error_exception" \in messages

\* C6 as claimed: a provider failure never leaves the data loader.
LoaderCatchesProviderFailure == exc.at # "fetch_data"

\* C7 as claimed: a run served from the one-hour cache calls no provider.
CachedRunCallsNoProvider == hit => calls = << >>

\* both index columns came back with the comparison download
ProxyAvailable ==
    ProxyGuard(proxy_raw) /\ ProxyTickers \subseteq proxy_raw.close.cols

HighBand == {"Aggressive", "Domestic Led", "Neutral Buy"}
MiddleBand == {"Short Squeeze", "Bottom Ambush", "Wait and See"}
LowBand == {"Bull Trap", "Defensive"}

\* C8: once the decision matrix has run on available comparison data,
\* exactly one advisory is on the page, it belongs to the band of the
\* composite score, and it is the one the matrix yields for this run's
\* score, momentum gap, short ratio and exchange rate.
ExactlyOneAdvisory ==
    (pc \in {"manual", "footer", "done"} /\ ProxyAvailable) =>
        /\ Len(advisories) = 1
        /\ gsmi_total >= 70 => advisories[1] \in HighBand
        /\ (45 <= gsmi_total /\ gsmi_total < 70) => advisories[1] \in MiddleBand
        /\ gsmi_total < 45 => advisories[1] \in LowBand
        /\ advisories = Decide(gsmi_total, momentum_gap, current_hkd, hk_short_ratio)

ExactlyOneAdvisoryWitness ==
    /\ pc = "done" /\ hit /\ ProxyAvailable
    /\ gsmi_total = 70
    /\ advisories = << "Domestic Led" >>

\* something went wrong in this run
RunFailed == exc # NoExc \/ ~fred_key \/ "error_proxy" \in messages

\* C9 as claimed: every failed run ends with a message and the footer.
EveryFailureReachesFooter ==
    (pc \in {"done", "stopped"} /\ RunFailed) => (messages # {} /\ footer)

\* no provider call was made twice in this run
NoRetry == \A i, j \in 1..Len(calls) : calls[i] = calls[j] => i = j

\* C9 amended: an exception of the try block is handled by the top-level
\* handler, shown as a message and followed by the footer, without a retry;
\* an unusable comparison download shows its own message and the run goes
\* on to the footer; a missing key shows a warning and stops the script
\* before the footer.
FailuresShownFooterUnlessStopped ==
    /\ NoRetry
    /\ exc # NoExc => pc \in {"except", "footer", "done"}
    /\ (pc \in {"footer", "done"} /\ exc # NoExc) => "error_exception" \in messages
    /\ (pc \in {"footer", "done"} /\ proxy_raw # NoProxy /\ ~ProxyGuard(proxy_raw))
           => "error_proxy" \in messages
    /\ pc = "done" => footer
    /\ pc = "stopped" => (~fred_key /\ "warning_key" \in messages /\ ~footer)
    /\ ~fred_key => pc \in {"idle", "key", "stopped"}

FailuresShownFooterUnlessStoppedWitness ==
    /\ pc = "done" /\ footer
    /\ exc = [type |-> "NetworkError", at |-> "fetch_data"]
    /\ messages = {"error_exception"}

\* rank of an advisory, Defensive lowest, Aggressive highest
AdvisoryLevel(a) ==
    CASE a = "Defensive" -> 1 [] a = "Bull Trap" -> 2
      [] a = "Wait and See" -> 3 [] a = "Bottom Ambush" -> 4
      [] a = "Short Squeeze" -> 5 [] a = "Neutral Buy" -> 6
      [] a = "Domestic Led" -> 7 [] a = "Aggressive" -> 8

\* C10 as claimed: with the correction on and the impact major-positive the
\* advisory on the page is one level above the matrix's, otherwise it is
\* the matrix's.
ManualFixRaisesAdvisory ==
    (pc = "done" /\ ProxyAvailable /\ exc = NoExc) =>
        LET chosen == Decide(gsmi_total, momentum_gap, current_hkd, hk_short_ratio)[1]
        IN  /\ Len(advisories) = 1
            /\ AdvisoryLevel(advisories[1]) =
                  IF manual_fix /\ impact = "major_positive"
                  THEN Min(AdvisoryLevel(chosen) + 1, 8)
                  ELSE AdvisoryLevel(chosen)
====
